---- MODULE Spec2Model ----
(***************************************************************************)
(* Fixed-time traffic-signal controller (src/Enviroment/fixed_timer.py).   *)
(* A signal string is a sequence of one-character strings, so that its     *)
(* length and its characters can be inspected: "rrr" is <<"r","r","r">>.   *)
(* A segment (state, duration) is the pair <<state, duration>>.            *)
(***************************************************************************)
EXTENDS Integers, Sequences, FiniteSets, TLC

VARIABLES
    pc,               \* position in run_simulation: start, loop, finally, done
    started,          \* traci.start returned
    all_tls,          \* traci.trafficlight.getIDList()
    existing_tls,     \* the controlled intersections, in TRAFFIC_LIGHTS order
    current_phase,    \* index into PHASES, 0-based as in the code
    phase_start_time,
    step,
    time_in_phase,    \* the local computed at the top of the last iteration
    held,             \* the simulator's signal string per intersection
    pushes,           \* setRedYellowGreenState calls of the last step taken
    walks,            \* segment walks run by the last iteration
    zeroReported,     \* getMinExpectedNumber returned 0 at the loop test
    advances,         \* number of simulationStep calls made
    closeCalls,       \* number of traci.close calls made
    closeFailed,      \* the close of the finally block raised
    error,            \* the except clause that ran: none, fatal, other
    v_in,             \* validate_state: the call's arguments
    v_out,            \* validate_state: the call's result
    schedule          \* the PHASES the module was loaded with

vars == <<pc, started, all_tls, existing_tls, current_phase, phase_start_time,
          step, time_in_phase, held, pushes, walks, zeroReported, advances,
          closeCalls, closeFailed, error, v_in, v_out, schedule>>

runVars == <<pc, started, all_tls, existing_tls, current_phase,
             phase_start_time, step, time_in_phase, held, pushes, walks,
             zeroReported, advances, closeCalls, closeFailed, error,
             schedule>>

----------------------------------------------------------------------------
(* Configuration *)

SIMULATION_TIME == 58500

TRAFFIC_LIGHTS == [T1 |-> 3, T2 |-> 2, T3 |-> 3, T4 |-> 2, T5 |-> 1]

\* TRAFFIC_LIGHTS.keys(), in insertion order
TLKeys == <<"T1", "T2", "T3", "T4", "T5">>

Str(c, n) == [i \in 1..n |-> c]

PHASE_1 ==
    [T1 |-> << <<Str("r", 3), 15>>, <<Str("g", 3), 40>>, <<Str("y", 3), 5>> >>,
     T2 |-> << <<Str("r", 2), 60>> >>,
     T3 |-> << <<Str("r", 3), 60>> >>,
     T4 |-> << <<Str("g", 2), 55>>, <<Str("y", 2), 5>> >>,
     T5 |-> << <<Str("g", 1), 10>>, <<Str("r", 1), 15>>, <<Str("g", 1), 25>>,
               <<Str("y", 1), 5>> >>]

PHASE_2_T4LeftGreen ==
    [T1 |-> << <<Str("r", 3), 15>>, <<Str("g", 3), 40>>, <<Str("y", 3), 5>> >>,
     T2 |-> << <<Str("g", 2), 55>>, <<Str("y", 2), 5>> >>,
     T3 |-> << <<Str("r", 3), 60>> >>,
     T4 |-> << <<Str("g", 2), 55>>, <<Str("y", 2), 5>> >>,
     T5 |-> << <<Str("g", 1), 10>>, <<Str("r", 1), 15>>, <<Str("g", 1), 25>>,
               <<Str("y", 1), 5>> >>]

PHASE_2 ==
    [T1 |-> << <<Str("r", 3), 15>>, <<Str("g", 3), 40>>, <<Str("y", 3), 5>> >>,
     T2 |-> << <<Str("g", 2), 55>>, <<Str("y", 2), 5>> >>,
     T3 |-> << <<Str("r", 3), 60>> >>,
     T4 |-> << <<Str("r", 2), 60>> >>,
     T5 |-> << <<Str("g", 1), 10>>, <<Str("r", 1), 15>>, <<Str("g", 1), 25>>,
               <<Str("y", 1), 5>> >>]

PHASE_3 ==
    [T1 |-> << <<Str("r", 3), 30>>, <<Str("g", 3), 10>>, <<Str("y", 3), 5>>,
               <<Str("r", 3), 15>> >>,
     T2 |-> << <<Str("r", 2), 60>> >>,
     T3 |-> << <<Str("g", 3), 55>>, <<Str("y", 3), 5>> >>,
     T4 |-> << <<Str("r", 2), 60>> >>,
     T5 |-> << <<Str("g", 1), 10>>, <<Str("r", 1), 15>>, <<Str("g", 1), 25>>,
               <<Str("y", 1), 5>> >>]

PHASES ==
    << [duration |-> 60, patterns |-> PHASE_1, name |-> "Phase 1"],
       [duration |-> 60, patterns |-> PHASE_2, name |-> "Phase 2"],
       [duration |-> 60, patterns |-> PHASE_3, name |-> "Phase 3"] >>

\* A schedule edited to hold segments whose strings have the wrong length:
\* too short in the first segment of T1 in phase 1 (the initial push), too
\* long in the last segment of T4 in phase 1 (a push of the update loop),
\* too short in the first segment of T2 in phase 2 (a transition push)
MALFORMED_PHASES ==
    << [PHASES[1] EXCEPT
          !.patterns = [PHASE_1 EXCEPT
              !.T1 = << <<Str("r", 2), 15>>, <<Str("g", 3), 40>>, <<Str("y", 3), 5>> >>,
              !.T4 = << <<Str("g", 2), 55>>, <<Str("y", 3), 5>> >>]],
       [PHASES[2] EXCEPT
          !.patterns = [PHASE_2 EXCEPT
              !.T2 = << <<Str("g", 1), 55>>, <<Str("y", 2), 5>> >>]],
       PHASES[3] >>

\* PHASES[current_phase], the code's 0-based lookup
PhaseData(i) ==
    IF schedule = "configured" THEN PHASES[i + 1] ELSE MALFORMED_PHASES[i + 1]

----------------------------------------------------------------------------
(* Bounds of the model and the inputs drawn from the environment *)

\* longest candidate string handed to validate_state
MaxLen == 4

\* largest count getMinExpectedNumber reports
MaxExpected == 1

\* an identifier of the live network that is not configured
Unconfigured == "J0"

\* the live networks tried: none configured, all, some
Networks ==
    { {}, {Unconfigured},
      {"T1", "T2", "T3", "T4", "T5", Unconfigured},
      {"T2", "T5"} }

\* the exception classes a collaborator call raises
ErrorKinds == {"fatal", "other"}

\* the signal colour the static program shows before control is taken
StaticColours == {"r", "G"}

RECURSIVE StringsOfLen(_)
StringsOfLen(n) ==
    IF n = 0 THEN {<<>>}
    ELSE {Append(s, c) : s \in StringsOfLen(n - 1), c \in {"r", "g", "y"}}

Candidates == UNION {StringsOfLen(n) : n \in 0..MaxLen}

----------------------------------------------------------------------------
(* validate_state *)

\* TRAFFIC_LIGHTS.get(tl_id, 0)
ExpectedLen(tl_id) ==
    IF tl_id \in DOMAIN TRAFFIC_LIGHTS THEN TRAFFIC_LIGHTS[tl_id] ELSE 0

validate_state_eq(tl_id, state) ==
    LET expected_len == ExpectedLen(tl_id)
    IN  IF Len(state) >= expected_len
        THEN IF expected_len = 3 THEN Str("r", 3)
             ELSE IF expected_len = 2 THEN Str("r", 2)
             ELSE Str("r", 1)
        ELSE state

validate_state_unchecked(tl_id, state) == state

validate_state(tl_id, state) ==
    LET expected_len == ExpectedLen(tl_id)
    IN  IF Len(state) # expected_len
        THEN IF expected_len = 3 THEN Str("r", 3)
             ELSE IF expected_len = 2 THEN Str("r", 2)
             ELSE Str("r", 1)
        ELSE state

----------------------------------------------------------------------------
(* The pieces of run_simulation *)

\* every light of the live network, configured or not
ExistingAnyLight(net) ==
    SelectSeq(TLKeys \o <<Unconfigured>>, LAMBDA t : t \in net)

\* existing_tls: the keys of TRAFFIC_LIGHTS found in the live network
Existing(net) == SelectSeq(TLKeys, LAMBDA t : t \in net)

\* what the simulator shows when it has loaded the network: the static
\* program's state of every configured intersection of the network
StaticHeld(net, c) ==
    [t \in net \cap DOMAIN TRAFFIC_LIGHTS |-> Str(c, TRAFFIC_LIGHTS[t])]

\* the loop test of the while statement
LoopCondOffByOne(s, minExpected) == s < SIMULATION_TIME /\ minExpected > 1

LoopCond(s, minExpected) == s < SIMULATION_TIME /\ minExpected > 0

\* the phase-change test
PhaseElapsedStrict(tip, phase_data) == tip > phase_data.duration

PhaseElapsed(tip, phase_data) == tip >= phase_data.duration

NextPhaseClamped(cp) == IF cp + 1 = Len(PHASES) THEN cp ELSE cp + 1

NextPhase(cp) == (cp + 1) % Len(PHASES)

\* the push test of the update loop
NeedsPushAlways(current_state, valid_state) == TRUE

NeedsPush(current_state, valid_state) == current_state # valid_state

\* the inner for loop: the index of the segment that matches, 0 when the
\* pattern is exhausted without a match
RECURSIVE WalkFrom(_, _, _)
WalkFrom(pattern, i, elapsed) ==
    IF i > Len(pattern) THEN 0
    ELSE IF elapsed < pattern[i][2] THEN i
    ELSE WalkFrom(pattern, i + 1, elapsed - pattern[i][2])

Walk(pattern, elapsed) == WalkFrom(pattern, 1, elapsed)

\* the intersections of existing_tls with a pattern in the phase
InPhase(existing, phase_data) ==
    SelectSeq(existing, LAMBDA t : t \in DOMAIN phase_data.patterns)

EntryPushesLastSegment(existing, phase_data, h) ==
    LET ids == SelectSeq(InPhase(existing, phase_data),
                         LAMBDA t : Len(phase_data.patterns[t]) > 0)
        Last(t) == phase_data.patterns[t][Len(phase_data.patterns[t])][1]
    IN  [k \in 1..Len(ids) |->
            [tl    |-> ids[k],
             state |-> validate_state(ids[k], Last(ids[k])),
             prev  |-> h[ids[k]],
             entry |-> TRUE]]

\* "Set initial states" and "Apply new phase": the first segment of every
\* controlled intersection with a non-empty pattern, pushed unconditionally
EntryPushes(existing, phase_data, h) ==
    LET ids == SelectSeq(InPhase(existing, phase_data),
                         LAMBDA t : Len(phase_data.patterns[t]) > 0)
    IN  [k \in 1..Len(ids) |->
            [tl    |-> ids[k],
             state |-> validate_state(ids[k], phase_data.patterns[ids[k]][1][1]),
             prev  |-> h[ids[k]],
             entry |-> TRUE]]

\* the walks the update loop runs
Walks(existing, phase_data, tip) ==
    LET ids == InPhase(existing, phase_data)
    IN  [k \in 1..Len(ids) |->
            [tl      |-> ids[k],
             elapsed |-> tip,
             seg     |-> Walk(phase_data.patterns[ids[k]], tip)]]

\* "Update each traffic light based on pattern": the pushes of the loop
UpdatePushes(existing, phase_data, tip, h) ==
    LET ws   == Walks(existing, phase_data, tip)
        Valid(w) == validate_state(w.tl, phase_data.patterns[w.tl][w.seg][1])
        hits == SelectSeq(ws, LAMBDA w : w.seg # 0 /\ NeedsPush(h[w.tl], Valid(w)))
    IN  [k \in 1..Len(hits) |->
            [tl    |-> hits[k].tl,
             state |-> Valid(hits[k]),
             prev  |-> h[hits[k].tl],
             entry |-> FALSE]]

\* the simulator after the first n pushes of ps
RECURSIVE ApplyPushes(_, _, _)
ApplyPushes(h, ps, n) ==
    IF n = 0 THEN h
    ELSE [ApplyPushes(h, ps, n - 1) EXCEPT ![ps[n].tl] = ps[n].state]

\* the walks run up to and including the one of intersection tl
WalksUpTo(ws, tl) ==
    LET k == CHOOSE j \in 1..Len(ws) : ws[j].tl = tl
    IN  SubSeq(ws, 1, k)

----------------------------------------------------------------------------
(* Initial state: before run_simulation is entered *)

NoCall == [tl_id |-> "", state |-> <<>>, called |-> FALSE]

Init ==
    /\ pc = "start"
    /\ started = FALSE
    /\ all_tls = {}
    /\ existing_tls = <<>>
    /\ current_phase = 0
    /\ phase_start_time = 0
    /\ step = 0
    /\ time_in_phase = 0
    /\ held = <<>>
    /\ pushes = <<>>
    /\ walks = <<>>
    /\ zeroReported = FALSE
    /\ advances = 0
    /\ closeCalls = 0
    /\ closeFailed = FALSE
    /\ error = "none"
    /\ v_in = NoCall
    /\ v_out = <<>>
    /\ schedule = "configured"

----------------------------------------------------------------------------
(* Start-up: lines 77-121 *)

\* traci.start raises
StartFailsNoFinally(kind) ==
    /\ pc = "start"
    /\ pc' = "done"
    /\ error' = kind
    /\ UNCHANGED <<started, all_tls, existing_tls, current_phase,
                   phase_start_time, step, time_in_phase, held, pushes, walks,
                   zeroReported, advances, closeCalls, closeFailed, v_in, v_out, schedule>>

StartFails(kind) ==
    /\ pc = "start"
    /\ pc' = "finally"
    /\ error' = kind
    /\ UNCHANGED <<started, all_tls, existing_tls, current_phase,
                   phase_start_time, step, time_in_phase, held, pushes, walks,
                   zeroReported, advances, closeCalls, closeFailed, v_in, v_out, schedule>>

\* getIDList raises
StartDiscoveryFails(kind) ==
    /\ pc = "start"
    /\ started' = TRUE
    /\ pc' = "finally"
    /\ error' = kind
    /\ UNCHANGED <<all_tls, existing_tls, current_phase, phase_start_time,
                   step, time_in_phase, held, pushes, walks, zeroReported,
                   advances, closeCalls, closeFailed, v_in, v_out, schedule>>

\* no configured intersection is in the network
StartNoLightsNoReturn(net) ==
    /\ pc = "start"
    /\ Existing(net) = <<>>
    /\ started' = TRUE
    /\ all_tls' = net
    /\ existing_tls' = Existing(net)
    /\ current_phase' = 0
    /\ phase_start_time' = 0
    /\ step' = 0
    /\ advances' = advances + 1
    /\ pc' = "loop"
    /\ UNCHANGED <<time_in_phase, held, pushes, walks, zeroReported,
                   closeCalls, closeFailed, error, v_in, v_out, schedule>>

\* the same, with the close and the return of lines 98-99
StartNoLights(net) ==
    /\ pc = "start"
    /\ Existing(net) = <<>>
    /\ started' = TRUE
    /\ all_tls' = net
    /\ existing_tls' = Existing(net)
    /\ closeCalls' = closeCalls + 1
    /\ pc' = "finally"
    /\ UNCHANGED <<current_phase, phase_start_time, step, time_in_phase, held,
                   pushes, walks, zeroReported, advances, closeFailed, error,
                   v_in, v_out, schedule>>

\* the same, and the close of line 98 raises
StartNoLightsCloseFails(net, kind) ==
    /\ pc = "start"
    /\ Existing(net) = <<>>
    /\ started' = TRUE
    /\ all_tls' = net
    /\ existing_tls' = Existing(net)
    /\ closeCalls' = closeCalls + 1
    /\ error' = kind
    /\ pc' = "finally"
    /\ UNCHANGED <<current_phase, phase_start_time, step, time_in_phase, held,
                   pushes, walks, zeroReported, advances, closeFailed,
                   v_in, v_out, schedule>>

\* the first simulationStep raises
StartAdvanceFails(net, c, kind) ==
    /\ pc = "start"
    /\ Existing(net) # <<>>
    /\ started' = TRUE
    /\ held' = StaticHeld(net, c)
    /\ all_tls' = net
    /\ existing_tls' = Existing(net)
    /\ current_phase' = 0
    /\ phase_start_time' = 0
    /\ step' = 0
    /\ advances' = advances + 1
    /\ error' = kind
    /\ pc' = "finally"
    /\ UNCHANGED <<time_in_phase, pushes, walks, zeroReported,
                   closeCalls, closeFailed, v_in, v_out, schedule>>

\* the k-th initial push is rejected
StartPushRejected(net, c, k, kind) ==
    LET ps == EntryPushes(Existing(net), PhaseData(0), StaticHeld(net, c))
    IN  /\ pc = "start"
        /\ Existing(net) # <<>>
        /\ k \in 1..Len(ps)
        /\ started' = TRUE
        /\ all_tls' = net
        /\ existing_tls' = Existing(net)
        /\ current_phase' = 0
        /\ phase_start_time' = 0
        /\ step' = 0
        /\ advances' = advances + 1
        /\ held' = ApplyPushes(StaticHeld(net, c), ps, k - 1)
        /\ pushes' = SubSeq(ps, 1, k)
        /\ error' = kind
        /\ pc' = "finally"
        /\ UNCHANGED <<time_in_phase, walks, zeroReported, closeCalls,
                       closeFailed, v_in, v_out, schedule>>

\* control is taken and the initial states are set
StartControl(net, c) ==
    LET ps == EntryPushes(Existing(net), PhaseData(0), StaticHeld(net, c))
    IN  /\ pc = "start"
        /\ Existing(net) # <<>>
        /\ started' = TRUE
        /\ all_tls' = net
        /\ existing_tls' = Existing(net)
        /\ current_phase' = 0
        /\ phase_start_time' = 0
        /\ step' = 0
        /\ advances' = advances + 1
        /\ held' = ApplyPushes(StaticHeld(net, c), ps, Len(ps))
        /\ pushes' = ps
        /\ pc' = "loop"
        /\ UNCHANGED <<time_in_phase, walks, zeroReported, closeCalls,
                       closeFailed, error, v_in, v_out, schedule>>

----------------------------------------------------------------------------
(* One iteration of the main loop: lines 124-177 *)

\* the phase after the phase-change test of this iteration
PhaseNow ==
    IF PhaseElapsed(step - phase_start_time, PhaseData(current_phase))
    THEN NextPhase(current_phase) ELSE current_phase

StartNow ==
    IF PhaseElapsed(step - phase_start_time, PhaseData(current_phase))
    THEN step ELSE phase_start_time

\* "Apply new phase", run only when the phase changed
TransitionPushes ==
    IF PhaseElapsed(step - phase_start_time, PhaseData(current_phase))
    THEN EntryPushes(existing_tls, PhaseData(PhaseNow), held)
    ELSE <<>>

\* every push of the iteration, in call order
IterationPushes ==
    LET tp == TransitionPushes
    IN  tp \o UpdatePushes(existing_tls, PhaseData(PhaseNow),
                           step - phase_start_time,
                           ApplyPushes(held, tp, Len(tp)))

IterationWalks ==
    Walks(existing_tls, PhaseData(PhaseNow), step - phase_start_time)

TickAdvancesTwice(minExpected) ==
    /\ pc = "loop"
    /\ LoopCond(step, minExpected)
    /\ advances' = advances + 2
    /\ time_in_phase' = step - phase_start_time
    /\ current_phase' = PhaseNow
    /\ phase_start_time' = StartNow
    /\ LET ps == IterationPushes
       IN  /\ held' = ApplyPushes(held, ps, Len(ps))
           /\ pushes' = ps
    /\ walks' = IterationWalks
    /\ step' = step + 1
    /\ UNCHANGED <<pc, started, all_tls, existing_tls, zeroReported,
                   closeCalls, closeFailed, error, v_in, v_out, schedule>>

Tick(minExpected) ==
    /\ pc = "loop"
    /\ LoopCond(step, minExpected)
    /\ advances' = advances + 1
    /\ time_in_phase' = step - phase_start_time
    /\ current_phase' = PhaseNow
    /\ phase_start_time' = StartNow
    /\ LET ps == IterationPushes
       IN  /\ held' = ApplyPushes(held, ps, Len(ps))
           /\ pushes' = ps
    /\ walks' = IterationWalks
    /\ step' = step + 1
    /\ UNCHANGED <<pc, started, all_tls, existing_tls, zeroReported,
                   closeCalls, closeFailed, error, v_in, v_out, schedule>>

\* simulationStep raises
TickAdvanceFailsContinues(minExpected, kind) ==
    /\ pc = "loop"
    /\ LoopCond(step, minExpected)
    /\ advances' = advances + 1
    /\ pushes' = <<>>
    /\ walks' = <<>>
    /\ error' = kind
    /\ UNCHANGED <<pc, started, all_tls, existing_tls, current_phase,
                   phase_start_time, step, time_in_phase, held, zeroReported,
                   closeCalls, closeFailed, v_in, v_out, schedule>>

TickAdvanceFails(minExpected, kind) ==
    /\ pc = "loop"
    /\ LoopCond(step, minExpected)
    /\ advances' = advances + 1
    /\ pushes' = <<>>
    /\ walks' = <<>>
    /\ error' = kind
    /\ pc' = "finally"
    /\ UNCHANGED <<started, all_tls, existing_tls, current_phase,
                   phase_start_time, step, time_in_phase, held, zeroReported,
                   closeCalls, closeFailed, v_in, v_out, schedule>>

\* one of the pushes of the iteration, the k-th, is rejected
TickPushRejected(minExpected, kind) ==
    /\ pc = "loop"
    /\ LoopCond(step, minExpected)
    /\ LET ps == IterationPushes
       IN  \E k \in 1..Len(ps) :
              /\ held' = ApplyPushes(held, ps, k - 1)
              /\ pushes' = SubSeq(ps, 1, k)
              /\ walks' = IF ps[k].entry THEN <<>>
                          ELSE WalksUpTo(IterationWalks, ps[k].tl)
    /\ advances' = advances + 1
    /\ time_in_phase' = step - phase_start_time
    /\ current_phase' = PhaseNow
    /\ phase_start_time' = StartNow
    /\ error' = kind
    /\ pc' = "finally"
    /\ UNCHANGED <<started, all_tls, existing_tls, step, zeroReported,
                   closeCalls, closeFailed, v_in, v_out, schedule>>

\* the loop test is false: the budget is used up, or nothing remains
LoopExit(minExpected) ==
    /\ pc = "loop"
    /\ ~LoopCond(step, minExpected)
    /\ zeroReported' = (step < SIMULATION_TIME /\ minExpected = 0)
    /\ pushes' = <<>>
    /\ walks' = <<>>
    /\ pc' = "finally"
    /\ UNCHANGED <<started, all_tls, existing_tls, current_phase,
                   phase_start_time, step, time_in_phase, held, advances,
                   closeCalls, closeFailed, error, v_in, v_out, schedule>>

----------------------------------------------------------------------------
(* The finally block: lines 191-196 *)

\* a connection is open: started, and not closed by line 98
Connected == started /\ (closeCalls = 0 \/ error # "none")

FinallyCloseOk ==
    /\ pc = "finally"
    /\ Connected
    /\ closeCalls' = closeCalls + 1
    /\ pc' = "done"
    /\ UNCHANGED <<started, all_tls, existing_tls, current_phase,
                   phase_start_time, step, time_in_phase, held, pushes, walks,
                   zeroReported, advances, closeFailed, error, v_in, v_out, schedule>>

\* close raises and the bare except swallows it
FinallyCloseFails ==
    /\ pc = "finally"
    /\ closeCalls' = closeCalls + 1
    /\ closeFailed' = TRUE
    /\ pc' = "done"
    /\ UNCHANGED <<started, all_tls, existing_tls, current_phase,
                   phase_start_time, step, time_in_phase, held, pushes, walks,
                   zeroReported, advances, error, v_in, v_out, schedule>>

----------------------------------------------------------------------------
(* The run *)

Next ==
    \/ \E kind \in ErrorKinds : StartFails(kind)
    \/ \E kind \in ErrorKinds : StartDiscoveryFails(kind)
    \/ \E net \in Networks : StartNoLights(net)
    \/ \E net \in Networks, kind \in ErrorKinds : StartNoLightsCloseFails(net, kind)
    \/ \E net \in Networks, c \in StaticColours, kind \in ErrorKinds :
          StartAdvanceFails(net, c, kind)
    \/ \E net \in Networks, c \in StaticColours, kind \in ErrorKinds,
          k \in 1..Len(TLKeys) : StartPushRejected(net, c, k, kind)
    \/ \E net \in Networks, c \in StaticColours : StartControl(net, c)
    \/ \E m \in 0..MaxExpected : Tick(m)
    \/ \E m \in 0..MaxExpected, kind \in ErrorKinds : TickAdvanceFails(m, kind)
    \/ \E m \in 0..MaxExpected, kind \in ErrorKinds : TickPushRejected(m, kind)
    \/ \E m \in 0..MaxExpected : LoopExit(m)
    \/ FinallyCloseOk
    \/ FinallyCloseFails

Spec == Init /\ [][Next]_vars

\* the same run, the module loaded with the schedule of malformed segments
InitMalformed ==
    /\ pc = "start"
    /\ started = FALSE
    /\ all_tls = {}
    /\ existing_tls = <<>>
    /\ current_phase = 0
    /\ phase_start_time = 0
    /\ step = 0
    /\ time_in_phase = 0
    /\ held = <<>>
    /\ pushes = <<>>
    /\ walks = <<>>
    /\ zeroReported = FALSE
    /\ advances = 0
    /\ closeCalls = 0
    /\ closeFailed = FALSE
    /\ error = "none"
    /\ v_in = NoCall
    /\ v_out = <<>>
    /\ schedule = "malformed"

SpecMalformed == InitMalformed /\ [][Next]_vars

----------------------------------------------------------------------------
(* validate_state called on its own, on any identifier and candidate string *)

ValidateIds == DOMAIN TRAFFIC_LIGHTS \cup {Unconfigured}

ValidateCall(tl_id, state) ==
    /\ v_in' = [tl_id |-> tl_id, state |-> state, called |-> TRUE]
    /\ v_out' = validate_state(tl_id, state)
    /\ UNCHANGED runVars

NextValidate == \E tl_id \in ValidateIds, state \in Candidates : ValidateCall(tl_id, state)

SpecValidate == Init /\ [][NextValidate]_vars

----------------------------------------------------------------------------
(* Vocabulary of the properties *)

\* an iteration of the main loop has run to its end
TickDone == pc = "loop" /\ step > 0

\* the step counter's value during the last iteration
TickStep == IF pc = "loop" THEN step - 1 ELSE step

\* the pushes made by the last iteration (the start-up makes one
\* simulationStep call, every iteration one more)
TickPushes == IF advances >= 2 THEN pushes ELSE <<>>

\* the last iteration changed phase
Crossed == TickStep > 0 /\ phase_start_time = TickStep

\* the main loop was entered and has been left
LoopEnded ==
    /\ pc \in {"finally", "done"}
    /\ advances >= 2 \/ (advances = 1 /\ error = "none")

RECURSIVE SumDurations(_)
SumDurations(pattern) ==
    IF pattern = <<>> THEN 0
    ELSE Head(pattern)[2] + SumDurations(Tail(pattern))

Controlled == {existing_tls[k] : k \in 1..Len(existing_tls)}

----------------------------------------------------------------------------
(* C1: at the end of every tick, every controlled intersection with a      *)
(* program in the current phase shows validate_state of the segment active *)
(* at elapsed = step - phase_start_time, step being the tick's step.       *)
C1_HeldIsActiveSegment ==
    TickDone =>
        \A t \in Controlled \cap DOMAIN PhaseData(current_phase).patterns :
            LET pattern == PhaseData(current_phase).patterns[t]
                seg == Walk(pattern, TickStep - phase_start_time)
            IN  /\ seg # 0
                /\ held[t] = validate_state(t, pattern[seg][1])

(* C2: in every phase of the schedule a started run works with, the        *)
(* segment durations of every program sum to the phase's duration.         *)
C2_DurationsSumToPhase ==
    started =>
        \A i \in 1..Len(PHASES) :
            \A t \in DOMAIN PHASES[i].patterns :
                SumDurations(PHASES[i].patterns[t]) = PHASES[i].duration

(* C3: a segment walk run with 0 <= elapsed < duration of the phase        *)
(* selects a segment: it never exhausts the list without a match.          *)
C3_WalkMatchesWithinPhase ==
    \A k \in 1..Len(walks) :
        (0 <= walks[k].elapsed
            /\ walks[k].elapsed < PhaseData(current_phase).duration)
        => walks[k].seg # 0

(* C4, as claimed: in every tick, phase-transition ticks included, every   *)
(* push differs from the string the intersection held before it.           *)
C4_EveryPushChanges ==
    \A k \in 1..Len(TickPushes) : TickPushes[k].state # TickPushes[k].prev

(* C4, amended: every push of the update loop differs from the string the  *)
(* intersection held; the unconditional pushes are those of "Apply new     *)
(* phase", made only in a tick that changed phase.                         *)
C4_UpdatePushesChange ==
    \A k \in 1..Len(TickPushes) :
        /\ ~TickPushes[k].entry => TickPushes[k].state # TickPushes[k].prev
        /\ TickPushes[k].entry => Crossed

\* a tick in which one intersection was pushed a new string and another,
\* whose resolved string is the one it holds, was not pushed
C4_Witness ==
    /\ TickDone
    /\ \E k \in 1..Len(TickPushes) : ~TickPushes[k].entry
    /\ \E j \in 1..Len(walks) :
          /\ walks[j].seg # 0
          /\ \A k \in 1..Len(TickPushes) : TickPushes[k].tl # walks[j].tl

(* C5: the phase index is always in 0..N-1, it changes only when a phase   *)
(* boundary is crossed, and a crossing takes it to (index + 1) mod N.      *)
C5_PhasesCycle ==
    /\ [](current_phase \in 0..(Len(PHASES) - 1))
    /\ [][/\ phase_start_time' # phase_start_time
             => current_phase' = (current_phase + 1) % Len(PHASES)
          /\ current_phase' # current_phase
             => phase_start_time' # phase_start_time]_vars

\* the cycle has wrapped from the last phase to the first
C5_Witness ==
    /\ TickDone
    /\ current_phase = 0
    /\ phase_start_time = PHASES[1].duration + PHASES[2].duration + PHASES[3].duration

(* C6: validate_state returns the string unchanged for a configured        *)
(* intersection when the string has the expected length.                   *)
C6_ValidateKeepsWellFormed ==
    (/\ v_in.called
     /\ v_in.tl_id \in DOMAIN TRAFFIC_LIGHTS
     /\ Len(v_in.state) = TRAFFIC_LIGHTS[v_in.tl_id])
    => v_out = v_in.state

C6_Witness ==
    /\ v_in = [tl_id |-> "T1", state |-> <<"g", "y", "r">>, called |-> TRUE]
    /\ v_out = <<"g", "y", "r">>

(* C7: for every identifier, validate_state of a string of another length  *)
(* than the expected one is a string of the expected length, all "r".      *)
C7_FallbackHasExpectedLength ==
    (v_in.called /\ Len(v_in.state) # ExpectedLen(v_in.tl_id))
    => /\ Len(v_out) = ExpectedLen(v_in.tl_id)
       /\ \A i \in 1..Len(v_out) : v_out[i] = "r"

(* C8, as claimed: step never exceeds SIMULATION_TIME, and the loop ends   *)
(* below the budget only if zero remaining entities were reported.         *)
C8_FewerOnlyIfZero ==
    /\ step <= SIMULATION_TIME
    /\ (LoopEnded /\ step < SIMULATION_TIME) => zeroReported

(* C8, amended: step never exceeds SIMULATION_TIME, and the loop ends      *)
(* below the budget only if zero remaining entities were reported or a     *)
(* collaborator call of the iteration raised.                              *)
C8_FewerOnlyIfZeroOrError ==
    /\ step <= SIMULATION_TIME
    /\ (LoopEnded /\ step < SIMULATION_TIME) => (zeroReported \/ error # "none")

\* the loop ran the whole budget
C8_Witness ==
    /\ LoopEnded
    /\ step = SIMULATION_TIME
    /\ ~zeroReported
    /\ error = "none"

(* C9: run_simulation never stops before it has returned (in every state   *)
(* short of the return a step is enabled, and the loop counter is bounded  *)
(* by the budget); when it has returned it has attempted close at least    *)
(* once, and a close that raised in the finally block did not keep it from *)
(* returning.                                                              *)
C9_CloseOnEveryExit ==
    /\ pc \in {"start", "loop", "finally", "done"}
    /\ pc = "start" => ENABLED (\E kind \in ErrorKinds : StartFails(kind))
    /\ pc = "loop" =>
          /\ step <= SIMULATION_TIME
          /\ ENABLED (\E m \in 0..MaxExpected : Tick(m) \/ LoopExit(m))
    /\ pc = "finally" => ENABLED (FinallyCloseOk \/ FinallyCloseFails)
    /\ pc = "done" => closeCalls >= 1
    /\ closeFailed => pc = "done"

\* simulationStep raised in the loop, then close raised: the run returned
C9_Witness ==
    /\ pc = "done"
    /\ advances >= 2
    /\ error = "fatal"
    /\ closeFailed
    /\ closeCalls = 1

(* C10: every segment walk is run with 0 <= elapsed < duration of the      *)
(* current phase.                                                          *)
C10_WalkElapsedInPhase ==
    \A k \in 1..Len(walks) :
        /\ 0 <= walks[k].elapsed
        /\ walks[k].elapsed < PhaseData(current_phase).duration

(* C11: when the live network holds none of the configured intersections,  *)
(* the run is over right after the start-up: it is in its finally block or *)
(* has returned, no simulationStep and no setRedYellowGreenState call was  *)
(* made, and close has been called (by line 98 when the discovery ended    *)
(* without an error, by the finally block at the latest).                  *)
C11_NoLightsEndsRun ==
    (started /\ existing_tls = <<>>) =>
        /\ pc \in {"finally", "done"}
        /\ advances = 0
        /\ pushes = <<>>
        /\ held = <<>>
        /\ error = "none" => closeCalls >= 1
        /\ pc = "done" => closeCalls >= 1

\* the network holds only an unconfigured junction: the run has returned
C11_Witness ==
    /\ pc = "done"
    /\ started
    /\ all_tls = {Unconfigured}
    /\ existing_tls = <<>>
    /\ error = "none"
    /\ advances = 0

(* C12: once a collaborator call has raised, the run is out of the loop,   *)
(* and the only step it still takes is the close of the finally block: no  *)
(* simulationStep and no setRedYellowGreenState call follows.              *)
C12_FailureAbortsLoop ==
    /\ [](error # "none" => pc \in {"finally", "done"})
    /\ [][error # "none" =>
             /\ advances' = advances
             /\ pushes' = pushes
             /\ held' = held
             /\ closeCalls' = closeCalls + 1
             /\ pc' = "done"]_vars

\* a push of an iteration was rejected, and the run closed and returned
C12_Witness ==
    /\ pc = "done"
    /\ error = "other"
    /\ Len(TickPushes) >= 1
    /\ closeCalls = 1

\* the walk selected a segment whose string has not the expected length
MalformedWalk(w) ==
    /\ w.seg # 0
    /\ Len(PhaseData(current_phase).patterns[w.tl][w.seg][1]) # TRAFFIC_LIGHTS[w.tl]

(* C13: with malformed segments in the schedule, every string passed to    *)
(* setRedYellowGreenState (initial, transition and update pushes) and      *)
(* every string the simulator shows has the intersection's expected        *)
(* length, and an iteration that resolved a malformed segment ran to its   *)
(* end, the loop going on, unless a collaborator call raised.              *)
C13_MalformedNeverPushed ==
    /\ \A k \in 1..Len(pushes) :
          Len(pushes[k].state) = TRAFFIC_LIGHTS[pushes[k].tl]
    /\ \A t \in DOMAIN held : Len(held[t]) = TRAFFIC_LIGHTS[t]
    /\ ((\E k \in 1..Len(walks) : MalformedWalk(walks[k])) /\ error = "none")
          => pc = "loop"

\* T4's malformed last segment of phase 1 ("yyy" for two signals) has been
\* resolved in two iterations in a row: all-red is shown, the loop goes on
C13_Witness ==
    /\ schedule = "malformed"
    /\ TickDone
    /\ time_in_phase = 56
    /\ \E k \in 1..Len(walks) : walks[k].tl = "T4" /\ MalformedWalk(walks[k])
    /\ held["T4"] = <<"r", "r">>

(* C14: a step of the loop changes phase_start_time only if                *)
(* step - phase_start_time >= duration of the current phase, and then sets *)
(* it to step; an iteration that runs to its end changes it whenever that  *)
(* holds and increases step by exactly 1. At the end of every iteration,   *)
(* step being the iteration's step: 0 <= step - phase_start_time <         *)
(* duration, current_phase = (step div 60) mod 3 and                       *)
(* phase_start_time = 60 * (step div 60).                                  *)
C14_PhaseTiming ==
    /\ [](TickDone =>
            /\ 0 <= TickStep - phase_start_time
            /\ TickStep - phase_start_time < PhaseData(current_phase).duration
            /\ current_phase = (TickStep \div 60) % 3
            /\ phase_start_time = 60 * (TickStep \div 60))
    /\ [][/\ (pc = "loop" /\ phase_start_time' # phase_start_time) =>
                /\ step - phase_start_time >= PhaseData(current_phase).duration
                /\ phase_start_time' = step
                /\ current_phase' # current_phase
          /\ (pc = "loop" /\ pc' = "loop") =>
                /\ step' = step + 1
                /\ step - phase_start_time >= PhaseData(current_phase).duration
                      => phase_start_time' = step]_vars

\* the third phase has just begun, at step 120
C14_Witness ==
    /\ TickDone
    /\ TickStep = 120
    /\ phase_start_time = 120
    /\ current_phase = 2
    /\ time_in_phase = 60

(* C15: before the first iteration of the main loop the run is in phase 0, *)
(* begun at tick 0, with step 0, and every controlled intersection with a  *)
(* program in phase 0 has been pushed, and shows, the validated string of  *)
(* the first segment of that program.                                      *)
C15_InitialPush ==
    (pc = "loop" /\ step = 0) =>
        /\ current_phase = 0
        /\ phase_start_time = 0
        /\ \A t \in Controlled \cap DOMAIN PhaseData(0).patterns :
              LET first == validate_state(t, PhaseData(0).patterns[t][1][1])
              IN  /\ held[t] = first
                  /\ \E k \in 1..Len(pushes) :
                        pushes[k].tl = t /\ pushes[k].state = first

\* all five intersections are controlled and the loop is about to begin
C15_Witness ==
    /\ pc = "loop"
    /\ step = 0
    /\ Len(existing_tls) = 5
    /\ Len(pushes) = 5
    /\ held["T4"] = <<"g", "g">>

(* C16: the controlled intersections are exactly the identifiers that are  *)
(* both keys of TRAFFIC_LIGHTS and in the live network's list, and every   *)
(* setRedYellowGreenState and getRedYellowGreenState call (the pushes, the *)
(* reads of the update loop and of the status line) is for one of them: a  *)
(* configured intersection absent from the network is never pushed.        *)
C16_OnlyControlledAreDriven ==
    LET both == all_tls \cap DOMAIN TRAFFIC_LIGHTS
    IN  /\ Controlled \subseteq both
        /\ pc = "loop" => Controlled = both
        /\ \A k \in 1..Len(pushes) : pushes[k].tl \in both
        /\ \A k \in 1..Len(walks) : walks[k].tl \in both
        /\ DOMAIN held \subseteq both

\* T1, T3 and T4 are configured but absent from the network: the run goes
\* on for T2 and T5, which an iteration has just pushed
C16_Witness ==
    /\ TickDone
    /\ all_tls = {"T2", "T5"}
    /\ existing_tls = <<"T2", "T5">>
    /\ Len(TickPushes) >= 1
    /\ \A k \in 1..Len(TickPushes) : TickPushes[k].tl \in {"T2", "T5"}

(* C17, as claimed: the number of simulationStep calls made in a run never *)
(* exceeds SIMULATION_TIME.                                                *)
C17_AdvancesWithinBudget == advances <= SIMULATION_TIME

(* C17, amended: the simulator is advanced once at start-up and once in    *)
(* every iteration begun: between iterations the number of simulationStep  *)
(* calls is step + 1, out of the loop it is 0 (the loop was never reached) *)
(* or step + 1, or step + 2 when the last iteration was aborted by an      *)
(* error; it never exceeds SIMULATION_TIME + 1.                            *)
C17_AdvancesOncePerTickAndAtStart ==
    /\ advances <= SIMULATION_TIME + 1
    /\ pc = "loop" => advances = step + 1
    /\ pc \in {"finally", "done"} =>
          \/ advances = 0 /\ step = 0
          \/ advances = step + 1
          \/ advances = step + 2 /\ error # "none"

\* sixty iterations have run: the simulator was advanced sixty-one times
C17_Witness ==
    /\ TickDone
    /\ step = 60
    /\ advances = 61

(* C18, as claimed: in every run in which the simulator was started,      *)
(* traci.close is invoked exactly once, whichever way the run ends.        *)
C18_ClosedExactlyOnce == (pc = "done" /\ started) => closeCalls = 1

\* the lights among T2, T3 and T4 whose held string has a non-red character
NonRed == {t \in {"T2", "T3", "T4"} :
             \E i \in 1..Len(held[t]) : held[t][i] # "r"}

(* C19: with the configured schedule and all five intersections           *)
(* controlled, at the end of every tick at most one of T2, T3 and T4 holds *)
(* a string with a non-red character; the others are all red. This        *)
(* includes the ticks on which the phase changes.                          *)
C19_OneApproachAtATime ==
    (TickDone /\ schedule = "configured" /\ Len(existing_tls) = 5) =>
        Cardinality(NonRed) <= 1

\* a phase-transition tick with all five controlled: T2 has just turned
\* green, T3 and T4 are red
C19_Witness ==
    /\ TickDone
    /\ schedule = "configured"
    /\ Len(existing_tls) = 5
    /\ Crossed
    /\ NonRed = {"T2"}

====
